---- MODULE Spec2Model ----
(***************************************************************************)
(* Crawl orchestration of pydoll_substack2md/pydoll_scraper.py:            *)
(* BaseSubstackScraper.scrape_posts (dedup filter, semaphore-bounded fetch *)
(* workers, result collection, state commit) together with                 *)
(* PydollSubstackScraper.get_url_soup, whose fetch workers share the one    *)
(* browser tab of the scraper.                                              *)
(*                                                                         *)
(* Strings whose content the code inspects (URLs, file names, date         *)
(* strings) are sequences of one-character strings, so that split,         *)
(* slicing, isdigit and the lexicographic comparison of Python are          *)
(* computed and not assumed.                                                *)
(***************************************************************************)
EXTENDS Integers, Sequences, FiniteSets, TLC

----------------------------------------------------------------------------
(* Bounds of the model                                                     *)

\* Longest candidate list (post_urls) a run is started with.
MaxUrls == 2

\* Number of scrape_posts runs of one behaviour.
MaxRuns == 2

\* Longest candidate list the dedup filter is applied to on its own.
MaxCandidates == 3

\* Number of times the browser session is found broken and cannot be restarted.
MaxSessionFaults == 1

\* Number of times the browser session is lost while a run is fetching.
MaxDisconnects == 1

\* Longest candidate list of a run during which the browser session is lost.
MaxSessionUrls == 2

\* Longest list of URLs a sitemap or feed response lists.
MaxListed == 2

\* Largest number of publications main is given.
MaxPublications == 2

\* Longest candidate list of a publication main scrapes.
MaxMainUrls == 1

----------------------------------------------------------------------------
(* Strings                                                                 *)

Digits == {"0", "1", "2", "3", "4", "5", "6", "7", "8", "9"}

\* Code point order of the characters that occur in date strings
\* ("-" is 0x2D and sorts before the digits 0x30..0x39).
Ord(c) ==
    CASE c = "-" -> 0
      [] c = "0" -> 1 [] c = "1" -> 2 [] c = "2" -> 3 [] c = "3" -> 4
      [] c = "4" -> 5 [] c = "5" -> 6 [] c = "6" -> 7 [] c = "7" -> 8
      [] c = "8" -> 9 [] c = "9" -> 10
      [] OTHER -> 11

\* Python's str <= str: lexicographic by code point, a proper prefix is smaller.
RECURSIVE StrLeq(_, _)
StrLeq(a, b) ==
    IF a = << >> THEN TRUE
    ELSE IF b = << >> THEN FALSE
    ELSE IF a[1] = b[1] THEN StrLeq(Tail(a), Tail(b))
    ELSE Ord(a[1]) < Ord(b[1])

DigitChar(n) ==
    CASE n = 0 -> "0" [] n = 1 -> "1" [] n = 2 -> "2" [] n = 3 -> "3"
      [] n = 4 -> "4" [] n = 5 -> "5" [] n = 6 -> "6" [] n = 7 -> "7"
      [] n = 8 -> "8" [] n = 9 -> "9"

\* parsed_date.strftime("%Y%m%d") for a four-digit year.
Strftime(d) ==
    << DigitChar(d.y \div 1000), DigitChar((d.y \div 100) % 10),
       DigitChar((d.y \div 10) % 10), DigitChar(d.y % 10),
       DigitChar(d.m \div 10), DigitChar(d.m % 10),
       DigitChar(d.d \div 10), DigitChar(d.d % 10) >>

\* str.isdigit() on a non-empty string.
IsDigitStr(s) == s # << >> /\ \A i \in 1..Len(s) : s[i] \in Digits

SetMax(S) == CHOOSE x \in S : \A y \in S : y <= x

\* url.split("/")[-1]
LastSegment(url) ==
    LET slashes == {i \in 1..Len(url) : url[i] = "/"}
    IN  IF slashes = {} THEN url
        ELSE SubSeq(url, SetMax(slashes) + 1, Len(url))

get_url_slug_from_url(url) == LastSegment(url)

\* get_filename_from_url(url, filetype): a filetype that does not start with
\* "." (the empty one included) gets a "." put in front of it.
get_filename_from_url(url, filetype) ==
    LET ft == IF filetype # << >> /\ filetype[1] = "." THEN filetype
              ELSE <<".">> \o filetype
    IN  LastSegment(url) \o ft

ExtMd == <<".", "m", "d">>
ExtHtml == <<".", "h", "t", "m", "l">>

----------------------------------------------------------------------------
(* The publication: candidate URLs and what the browser shows for them     *)

UrlA == <<"s", "/", "a">>
UrlB == <<"s", "/", "b">>
UrlC == <<"s", "/", "c">>
\* A second URL whose final path segment is "a".
UrlA2 == <<"t", "/", "a">>
UrlN == <<"s", "/", "n">>
UrlG == <<"s", "/", "g">>
UrlX == <<"s", "/", "x">>
UrlV == <<"s", "/", "v">>
UrlH == <<"s", "/", "h">>
\* A URL whose final path segment itself looks like a date-prefixed name.
UrlDated == <<"s", "/", "2", "0", "2", "4", "0", "1", "0", "1", "-", "a">>
\* A gated page whose only gate marker is the <h2 class="paywall-title">.
UrlT == <<"s", "/", "t">>
\* A post published on the same day as t/a.
UrlE == <<"s", "/", "e">>

\* The tab before its first navigation.
Blank == << >>

\* What tab.page_source / tab.find return while the tab shows `shown`:
\* gate: the paywall markers on the page, each named after the detector of
\* handle_paywall that finds it (no marker: the page is not gated);
\* date_text: the text of the date element ("" when the page has none);
\* bad: extract_post_data raises on it.
\* The content of a URL is the same every time it is loaded.
Page(shown) ==
    CASE shown = UrlA  -> [gate |-> {}, date_text |-> "Dec 15, 2023", bad |-> FALSE]
      [] shown = UrlB  -> [gate |-> {}, date_text |-> "Jan 2, 2024", bad |-> FALSE]
      [] shown = UrlC  -> [gate |-> {"testid_paywall", "title_paywall", "class_paywall"},
                           date_text |-> "Jan 2, 2024", bad |-> FALSE]
      [] shown = UrlA2 -> [gate |-> {}, date_text |-> "Jan 3, 2024", bad |-> FALSE]
      [] shown = UrlE  -> [gate |-> {}, date_text |-> "Jan 3, 2024", bad |-> FALSE]
      [] shown = UrlG  -> [gate |-> {}, date_text |-> "soon", bad |-> FALSE]
      [] shown = UrlX  -> [gate |-> {}, date_text |-> "Jan 2, 2024", bad |-> TRUE]
      [] shown = UrlH  -> [gate |-> {}, date_text |-> "Jan 2, 2024", bad |-> FALSE]
      [] shown = UrlT  -> [gate |-> {"title_paywall"}, date_text |-> "Jan 2, 2024",
                           bad |-> FALSE]
      [] OTHER         -> [gate |-> {}, date_text |-> "", bad |-> FALSE]

\* The detectors handle_paywall starts: data-testid="paywall",
\* h2.paywall-title and class "paywall". Each find returns as soon as its
\* element is there and only after its timeout when it is not, so a detector
\* that matches is among the first to complete.
paywall_detection_tasks == {"testid_paywall", "title_paywall", "class_paywall"}

\* handle_paywall when the matching detectors are among the first to
\* complete: True when a gate is detected (whatever it then finds to click),
\* False otherwise. ProbeFirstCompleted drops the assumption.
handle_paywall(page) == page.gate \cap paywall_detection_tasks # {}

\* The detectors of the final check of get_url_soup: class "paywall" and
\* data-testid="paywall".
final_paywall_tasks == {"class_paywall", "testid_paywall"}

\* final_paywall of get_url_soup is set.
final_paywall(page) == page.gate \cap final_paywall_tasks # {}

\* tab.go_to(url) raises (an error other than a lost browser connection).
NavFails(url) == url = UrlV

\* save_to_html_file raises for this item (after the markdown file is saved).
HtmlSaveFails(url) == url = UrlH

NoDate == [y |-> 0, m |-> 0, d |-> 0]

\* dateparser.parse(text): None for a text that is no date.
DateParse(text) ==
    CASE text = "Dec 15, 2023" -> [y |-> 2023, m |-> 12, d |-> 15]
      [] text = "Jan 1, 2024"  -> [y |-> 2024, m |-> 1, d |-> 1]
      [] text = "Jan 2, 2024"  -> [y |-> 2024, m |-> 1, d |-> 2]
      [] text = "Jan 3, 2024"  -> [y |-> 2024, m |-> 1, d |-> 3]
      [] OTHER -> NoDate

DateUnset == <<"1", "9", "7", "0", "-", "0", "1", "-", "0", "1">>
Sentinel == <<"1", "9", "7", "0", "0", "1", "0", "1">>
Date20240101 == <<"2", "0", "2", "4", "0", "1", "0", "1">>

\* date_str of scrape_single_post_with_date for the page read from `shown`.
DateStrOf(shown) ==
    LET extracted_date == Page(shown).date_text
    IN  IF extracted_date # "" /\ extracted_date # "Date not found"
        THEN IF DateParse(extracted_date) # NoDate
             THEN Strftime(DateParse(extracted_date))
             ELSE Sentinel
        ELSE DateUnset

DatePrefix(date_str) == IF date_str # DateUnset THEN date_str ELSE Sentinel

\* md_filename and html_filename of scrape_single_post_with_date.
MdFilename(url, date_str) ==
    DatePrefix(date_str) \o <<"-">> \o get_filename_from_url(url, << >>) \o ExtMd

HtmlFilename(url, date_str) ==
    DatePrefix(date_str) \o <<"-">> \o get_filename_from_url(url, << >>) \o ExtHtml

----------------------------------------------------------------------------
(* Artifact inventory and dedup filter                                     *)

\* The slug _get_existing_urls_from_files recovers from one *.md file name.
SlugOfFile(filename) ==
    IF Len(filename) > 9 /\ filename[9] = "-" /\ IsDigitStr(SubSeq(filename, 1, 8))
    THEN SubSeq(filename, 10, Len(filename) - 3)
    ELSE SubSeq(filename, 1, Len(filename) - 3)

_get_existing_urls_from_files(md) == {SlugOfFile(f) : f \in md}

\* urls_to_process: the cap is applied to the candidates before the filter.
UrlsToProcess(urls, n) ==
    IF n # 0 THEN SubSeq(urls, 1, IF n < Len(urls) THEN n ELSE Len(urls)) ELSE urls

\* The continuous branch of the filter loop: TRUE when the URL is skipped.
SkipContinuous(url, seen_urls, seen_slugs, existing) ==
    \/ url \in seen_urls
    \/ get_url_slug_from_url(url) \in seen_slugs
    \/ get_url_slug_from_url(url) \in existing

SkipRegularNoSlugCheck(url, existing, md) ==
    get_filename_from_url(url, ExtMd) \in md

SkipRegularNoLegacyCheck(url, existing, md) ==
    get_url_slug_from_url(url) \in existing

\* The non-continuous branch of the filter loop: TRUE when the URL is skipped.
SkipRegular(url, existing, md) ==
    \/ get_filename_from_url(url, ExtMd) \in md
    \/ get_url_slug_from_url(url) \in existing

\* The filter loop of scrape_posts over urls_to_process.
RECURSIVE FilterLoop(_, _, _, _, _, _)
FilterLoop(urls, cont, seen_urls, seen_slugs, existing, md) ==
    IF urls = << >> THEN << >>
    ELSE LET url == Head(urls)
             skip == IF cont THEN SkipContinuous(url, seen_urls, seen_slugs, existing)
                     ELSE SkipRegular(url, existing, md)
             rest == FilterLoop(Tail(urls), cont, seen_urls, seen_slugs, existing, md)
         IN  IF skip THEN rest ELSE <<url>> \o rest

----------------------------------------------------------------------------
(* Discovery                                                               *)

\* keyword in url: the keyword occurs somewhere in the URL string.
Contains(str, sub) ==
    \E i \in 1..(Len(str) - Len(sub) + 1) : SubSeq(str, i, i + Len(sub) - 1) = sub

\* self.keywords
keywords == {<<"a", "b", "o", "u", "t">>, <<"a", "r", "c", "h", "i", "v", "e">>,
             <<"p", "o", "d", "c", "a", "s", "t">>}

IsPostUrl(url) == \A keyword \in keywords : ~Contains(url, keyword)

filter_urls(urls) == SelectSeq(urls, IsPostUrl)

UrlAbout == <<"s", "/", "a", "b", "o", "u", "t">>
\* A post of a publication whose host name contains "about"; what precedes
\* the first "/" of a URL of the model stands for its scheme and host.
UrlHostAbout == <<"a", "b", "o", "u", "t", "/", "a">>

\* What requests.get and the XML parser give for sitemap.xml or feed.xml:
\* the host cannot be reached, the request times out, the status is not 2xx,
\* the body is no XML, or the body is parsed and lists `urls` (possibly none).
Unreachable == [kind |-> "unreachable", urls |-> << >>]
TimedOut == [kind |-> "timeout", urls |-> << >>]
BadStatus == [kind |-> "status", urls |-> << >>]
Malformed == [kind |-> "malformed", urls |-> << >>]
Listing(urls) == [kind |-> "ok", urls |-> urls]

\* fetch_urls_from_sitemap and fetch_urls_from_feed: every exception and every
\* non-ok status gives the empty list.
fetch_urls_from_sitemap(response) ==
    IF response.kind = "ok" THEN response.urls ELSE << >>

fetch_urls_from_feed(response) ==
    IF response.kind = "ok" THEN response.urls ELSE << >>

FeedAlways(urls) == TRUE

\* "if not urls" of get_all_post_urls: the feed is asked.
FeedNeeded(urls) == urls = << >>

\* The requests get_all_post_urls makes, in order.
RequestsMade(sitemap_response) ==
    IF FeedNeeded(fetch_urls_from_sitemap(sitemap_response))
    THEN <<"sitemap.xml", "feed.xml">>
    ELSE <<"sitemap.xml">>

get_all_post_urls(sitemap_response, feed_response) ==
    LET urls == fetch_urls_from_sitemap(sitemap_response)
    IN  filter_urls(IF FeedNeeded(urls) THEN fetch_urls_from_feed(feed_response)
                    ELSE urls)

----------------------------------------------------------------------------
(* State                                                                   *)

VARIABLES
    post_urls,            \* self.post_urls: the discovered, filtered candidates
    continuous,           \* the continuous flag the runs are started with
    num_posts_to_scrape,  \* the item-count cap (0: none)
    max_concurrent,       \* the configured --max-concurrent
    is_logged_in,         \* self.is_logged_in after the login step of the run
    credentials,          \* SUBSTACK_EMAIL and SUBSTACK_PASSWORD are set
    manual_login,         \* self.manual_login
    sitemap,              \* what the publication answers for sitemap.xml
    feed,                 \* what the publication answers for feed.xml
    requested,            \* the discovery requests made so far, in order
    browser,              \* the browser session behind self.browser / self.tab
    disconnects,          \* losses of the browser session the environment has in store
    md_files,             \* names of the *.md files in md_save_dir
    html_files,           \* names of the files in html_save_dir
    state_file,           \* content of .scraping_state.json
    json_file,            \* the items of the aggregated results file <writer>.json
    phase,                \* "idle": no run in progress; "fetching": tasks created
    run,                  \* number of scrape_posts runs started
    latest_date,          \* locals of scrape_posts, loaded from the state
    scraped_urls,
    scraped_slugs,
    existing_urls,
    filtered_urls,        \* the work list; task w fetches filtered_urls[w]
    pc,                   \* position of each process_with_semaphore task
    semaphore,            \* value of the asyncio.Semaphore
    tab,                  \* URL the shared tab (self.tab) shows
    fetched,              \* what scrape_single_post_with_date gave each task
    completed,            \* the tasks in the order they completed
    outcomes,             \* results the as_completed loop received, in order
    essays_data,          \* essays_data of the last run
    run_error,            \* the last run ended by an exception leaving scrape_posts
    session_faults,       \* failing browser restarts the environment still has in store
    snap,                 \* disk, state file and incidents in store at the run's start
    login_error,          \* the sign-in page answers a login with its error container
    args,                 \* args of main: headless, delay_min, delay_max, interval
    unique_urls,          \* unique_urls of main: the publications, in order
    main_pc,              \* position of main ("none": the scraper is used without main)
    url_index,            \* i of the for loop of main (0: the pass has not begun)
    calls,                \* number of scrape_single_url calls main has made
    wait_time,            \* wait_time of main after the last pass (0: none yet)
    shared_browser,       \* shared_browser of main is set (a call has returned one)
    interrupted,          \* the process has received an interrupt
    exit_status,          \* how the process ended ("running" while it has not)
    disk,                 \* per publication: its directories and state file, as
                          \* last left by a scraper of that publication
    login_pc,             \* position of a login() call ("none": no call is modelled)
    sign_in_page          \* what the browser shows once the sign-in form was submitted

vars == << post_urls, continuous, num_posts_to_scrape, max_concurrent, is_logged_in,
           credentials, manual_login, sitemap, feed, requested, browser, disconnects,
           md_files, html_files, state_file, json_file, phase, run, latest_date,
           scraped_urls,
           scraped_slugs, existing_urls, filtered_urls, pc, semaphore, tab, fetched,
           completed, outcomes, essays_data, run_error, session_faults, snap,
           login_error, args, unique_urls, main_pc, url_index, calls, wait_time,
           shared_browser, interrupted, exit_status, disk, login_pc, sign_in_page >>

\* The variables of a login() call followed step by step.
login_vars == << login_pc, sign_in_page >>

\* The variables of main and of the publications it is not scraping.
main_vars == << args, unique_urls, main_pc, url_index, calls, wait_time,
               shared_browser, interrupted, exit_status, disk >>

\* What a run does not change: its arguments, the configuration of the
\* scraper, the candidates its constructor discovered, and the variables of
\* main, which awaits the run.
inputs == << post_urls, continuous, num_posts_to_scrape, max_concurrent, is_logged_in,
             credentials, manual_login, sitemap, feed, requested, login_error,
             main_vars, login_vars >>

\* asyncio.Semaphore(3) of scrape_posts.
SemaphoreLimit == 3

\* A missing state file; load_scraping_state gives {} for it, and the .get
\* defaults of scrape_posts then give empty sets and no latest date.
NoState ==
    [exists |-> FALSE, latest_post_date |-> << >>, latest_post_url |-> << >>,
     scraped_urls |-> {}, scraped_slugs |-> {}]

\* The state file after open(state_file, "w") and before the JSON text is
\* written out completely: it exists and holds no JSON document.
Truncated ==
    [exists |-> TRUE, latest_post_date |-> << >>, latest_post_url |-> << >>,
     scraped_urls |-> {}, scraped_slugs |-> {}]

\* json.load accepts the content of the file.
IsJson(file) == file # Truncated

\* An exception leaving load_scraping_state.
LoadError == [exists |-> FALSE, error |-> "JSONDecodeError"]

LoadErrorReraised(file) == LoadError

\* except Exception of load_scraping_state: print, then return {}.
LoadErrorHandler(file) == NoState

load_scraping_state(file) ==
    IF file.exists
    THEN IF IsJson(file) THEN file ELSE LoadErrorHandler(file)
    ELSE NoState

LoadedStateAlways(cont, file) == load_scraping_state(file)

\* load_scraping_state() if continuous else {}
LoadedState(cont, file) == IF cont THEN load_scraping_state(file) ELSE NoState

\* What initialize_browser gives: a new browser whose tab shows nothing and
\* holds no login. alive: the connection to the browser works; auth: a login
\* procedure was carried out on this browser; starts, stops: the number of
\* browsers started and stop() calls made so far; running: the browsers
\* started and never stopped, each named by its rank among the started ones.
\* self.browser is always the browser started last.
NoBrowser == [alive |-> FALSE, auth |-> FALSE, starts |-> 0, stops |-> 0, running |-> {}]

initialize_browser(b) ==
    [alive |-> TRUE, auth |-> FALSE, starts |-> b.starts + 1, stops |-> b.stops,
     running |-> b.running \cup {b.starts + 1}]

\* "await self.browser.stop()" of ensure_browser_initialized, on a browser
\* that failed the health check.
StopOld(b) == [b EXCEPT !.stops = b.stops + 1, !.running = b.running \ {b.starts}]

\* login() with credentials: perform_login_on_page on the current browser.
\* Without credentials it returns at once.
login(b) == [b EXCEPT !.auth = credentials]

\* login() raises "Login failed": with credentials, the sign-in page shows
\* its error container.
LoginFailed == credentials /\ ~manual_login /\ login_error

\* "Re-login if we were logged in before" of ensure_browser_initialized: in
\* manual mode only the flag is set again, else login() is called.
ReLogin(b) ==
    IF is_logged_in /\ (credentials \/ manual_login)
    THEN IF manual_login THEN b ELSE login(b)
    ELSE b

EnsureNoReLogin(b) ==
    IF b.alive THEN b ELSE initialize_browser(StopOld(b))

\* ensure_browser_initialized when initialize_browser succeeds: a browser
\* that fails the health check is stopped and replaced, and the login redone.
ensure_browser_initialized(b) ==
    IF b.alive THEN b
    ELSE ReLogin(initialize_browser(StopOld(b)))

\* The tab after ensure_browser_initialized: that of the new browser, if any.
TabAfterEnsure(b, t) == IF b.alive THEN t ELSE Blank

None == [kind |-> "none", url |-> << >>, date_str |-> << >>, content |-> << >>]

\* The dict scrape_single_post_with_date returns; content stands for the
\* title, subtitle, likes and markdown taken from the page that was read.
PostResult(url, shown) ==
    [kind |-> "post", url |-> url, date_str |-> DateStrOf(shown), content |-> shown]

\* An exception travelling up instead of a return value.
Raised == [kind |-> "raised", url |-> << >>, date_str |-> << >>, content |-> << >>]

Tasks == 1..Len(filtered_urls)

\* Tasks inside "async with semaphore".
InSemaphore ==
    {w \in Tasks : pc[w] \in {"sleep", "probe", "renav", "final", "source", "retry"}}

\* The positions of get_url_soup from its go_to(url) up to the read of
\* page_source, all inside its try.
InNavigationSteps == {"probe", "renav", "final", "source"}

\* Tasks between a go_to(url) of get_url_soup and its read of page_source.
InNavigation == {w \in Tasks : pc[w] \in {"probe", "renav", "final", "source", "retry"}}

ReraiseInstead(raw) == raw

\* except Exception of scrape_single_post_with_date: print and return None.
ExceptHandler(raw) == IF raw.kind = "raised" THEN None ELSE raw

NoPostFilter(result, cont, latest) == result

\* The check of process_with_semaphore after scraping: in continuous mode a
\* result whose date_str is <= the stored latest date becomes None.
PostFilter(result, cont, latest) ==
    IF result.kind = "post" /\ cont /\ latest # << >> /\ StrLeq(result.date_str, latest)
    THEN None
    ELSE result

\* What the task of w returns (or raises) to the as_completed loop.
TaskResult(w) == PostFilter(fetched[w], continuous, latest_date)

\* max(essays_data, key=date_str): the first element with the greatest key.
RECURSIVE MaxByDate(_, _)
MaxByDate(best, rest) ==
    IF rest = << >> THEN best
    ELSE IF ~StrLeq(Head(rest).date_str, best.date_str)
         THEN MaxByDate(Head(rest), Tail(rest))
         ELSE MaxByDate(best, Tail(rest))

----------------------------------------------------------------------------
(* Actions                                                                 *)

\* The constructor of the scraper: self.post_urls = self.get_all_post_urls().
Discover ==
    /\ requested = << >>
    /\ phase = "idle"
    /\ run = 0
    /\ requested' = RequestsMade(sitemap)
    /\ post_urls' = get_all_post_urls(sitemap, feed)
    /\ UNCHANGED << continuous, num_posts_to_scrape, max_concurrent, is_logged_in,
                    credentials, manual_login, sitemap, feed, browser, disconnects,
                    md_files, html_files, state_file, json_file, phase, run, latest_date,
                    scraped_urls, scraped_slugs, existing_urls, filtered_urls, pc,
                    semaphore, tab, fetched, completed, outcomes, essays_data,
                    run_error, session_faults, snap, login_error, main_vars,
                    login_vars >>

\* browser.stop()
Stopped(b) ==
    [b EXCEPT !.alive = FALSE, !.auth = FALSE, !.stops = b.stops + 1,
              !.running = b.running \ {b.starts}]

\* PydollSubstackScraper.scrape_posts starts a browser and logs in (a login
\* that fails raises, which ends the run); then
\* scrape_posts up to the creation of the tasks: early return on an empty
\* candidate list, load of the state, inventory scan, cap, filter loop,
\* early return on an empty work list, semaphore and tasks. An early return
\* (or an exception) ends the run, and the browser is stopped.
StartRun ==
    /\ phase = "idle"
    /\ run < MaxRuns
    /\ run' = run + 1
    /\ snap' = [md |-> md_files, html |-> html_files, state |-> state_file,
                json |-> json_file, incidents |-> session_faults + disconnects]
    /\ LET state == LoadedState(continuous, state_file)
           existing == _get_existing_urls_from_files(md_files)
           todo == FilterLoop(UrlsToProcess(post_urls, num_posts_to_scrape), continuous,
                              state.scraped_urls, state.scraped_slugs, existing, md_files)
       IN  IF LoginFailed
           THEN /\ UNCHANGED << latest_date, scraped_urls, scraped_slugs, existing_urls >>
                /\ filtered_urls' = << >>
                /\ phase' = "idle"
                /\ run_error' = TRUE
           ELSE IF post_urls = << >>
           THEN /\ UNCHANGED << latest_date, scraped_urls, scraped_slugs, existing_urls >>
                /\ filtered_urls' = << >>
                /\ phase' = "idle"
                /\ run_error' = FALSE
           ELSE IF state = LoadError
           THEN /\ UNCHANGED << latest_date, scraped_urls, scraped_slugs, existing_urls >>
                /\ filtered_urls' = << >>
                /\ phase' = "idle"
                /\ run_error' = TRUE
           ELSE /\ latest_date' = state.latest_post_date
                /\ scraped_urls' = state.scraped_urls
                /\ scraped_slugs' = state.scraped_slugs
                /\ existing_urls' = existing
                /\ filtered_urls' = todo
                /\ phase' = IF todo = << >> THEN "idle" ELSE "fetching"
                /\ run_error' = FALSE
    /\ browser' = IF phase' = "idle"
                  THEN Stopped(initialize_browser(browser))
                  ELSE [initialize_browser(browser) EXCEPT !.auth = is_logged_in]
    /\ pc' = [w \in 1..Len(filtered_urls') |-> "wait"]
    /\ fetched' = [w \in 1..Len(filtered_urls') |-> None]
    /\ semaphore' = SemaphoreLimit
    /\ tab' = Blank
    /\ completed' = << >>
    /\ outcomes' = << >>
    /\ essays_data' = << >>
    /\ UNCHANGED << inputs, disconnects, session_faults, md_files, html_files,
                    state_file, json_file >>

\* "async with semaphore" is entered; the task then sleeps its random delay.
Acquire(w) ==
    /\ phase = "fetching"
    /\ pc[w] = "wait"
    /\ semaphore > 0
    /\ semaphore' = semaphore - 1
    /\ pc' = [pc EXCEPT ![w] = "sleep"]
    /\ UNCHANGED << inputs, browser, disconnects, session_faults, md_files, html_files,
                    state_file, json_file, phase,
                    run, latest_date, scraped_urls, scraped_slugs, existing_urls,
                    filtered_urls, tab,
                    fetched, completed, outcomes, essays_data, run_error, snap >>

\* The task leaves process_with_semaphore with `ret`, the value
\* scrape_single_post_with_date returned: the semaphore is released.
Complete(w, ret) ==
    /\ pc' = [pc EXCEPT ![w] = "done"]
    /\ fetched' = [fetched EXCEPT ![w] = ret]
    /\ completed' = Append(completed, w)
    /\ semaphore' = semaphore + 1

\* get_url_soup: ensure_browser_initialized, then tab.go_to(url). A navigation
\* error is caught by get_url_soup, which returns None. When the session is
\* found broken and initialize_browser raises, the exception leaves
\* get_url_soup and reaches the handler of scrape_single_post_with_date; the
\* old browser has been stopped and there is no new one.
GoTo(w) ==
    /\ phase = "fetching"
    /\ pc[w] = "sleep"
    /\ \/ /\ session_faults > 0
          /\ session_faults' = session_faults - 1
          /\ browser' = Stopped(browser)
          /\ Complete(w, ExceptHandler(Raised))
          /\ UNCHANGED tab
       \/ /\ UNCHANGED session_faults
          /\ browser' = ensure_browser_initialized(browser)
          /\ IF NavFails(filtered_urls[w])
             THEN /\ Complete(w, None)
                  /\ tab' = TabAfterEnsure(browser, tab)
             ELSE /\ tab' = filtered_urls[w]
                  /\ pc' = [pc EXCEPT ![w] = "probe"]
                  /\ UNCHANGED << fetched, completed, semaphore >>
    /\ UNCHANGED << inputs, disconnects, md_files, html_files, state_file, json_file, phase, run,
                    latest_date,
                    scraped_urls, scraped_slugs, existing_urls, filtered_urls,
                    outcomes, essays_data, run_error, snap >>

\* ensure_browser_initialized followed step by step, as several tasks can be
\* inside it at once. First step: the health check fails and stop() is
\* called on self.browser; the task waits for stop() to return.
EnsureStop(w) ==
    /\ phase = "fetching"
    /\ pc[w] = "sleep"
    /\ ~browser.alive
    /\ browser' = StopOld(browser)
    /\ pc' = [pc EXCEPT ![w] = "restart"]
    /\ UNCHANGED << inputs, disconnects, session_faults, md_files, html_files,
                    state_file, json_file, phase, run, latest_date, scraped_urls,
                    scraped_slugs, existing_urls, filtered_urls, tab, semaphore,
                    fetched, completed, outcomes, essays_data, run_error, snap >>

\* Second step: initialize_browser assigns a new Chrome to self.browser and
\* starts it, whatever self.browser has become in the meantime, and the
\* login is redone; get_url_soup then goes on to tab.go_to(url).
EnsureStart(w) ==
    /\ phase = "fetching"
    /\ pc[w] = "restart"
    /\ browser' = ReLogin(initialize_browser(browser))
    /\ tab' = Blank
    /\ pc' = [pc EXCEPT ![w] = "sleep"]
    /\ UNCHANGED << inputs, disconnects, session_faults, md_files, html_files,
                    state_file, json_file, phase, run, latest_date, scraped_urls,
                    scraped_slugs, existing_urls, filtered_urls, semaphore,
                    fetched, completed, outcomes, essays_data, run_error, snap >>

\* get_url_soup after the load wait: handle_paywall probes the page the tab
\* shows; when it finds a gate it returns True and the URL is loaded again.
Probe(w) ==
    /\ phase = "fetching"
    /\ pc[w] = "probe"
    /\ browser.alive
    /\ pc' = [pc EXCEPT ![w] = IF handle_paywall(Page(tab)) THEN "renav" ELSE "final"]
    /\ UNCHANGED << inputs, browser, disconnects, session_faults, md_files, html_files,
                    state_file, json_file, phase,
                    run, latest_date, scraped_urls, scraped_slugs, existing_urls,
                    filtered_urls, tab,
                    semaphore, fetched, completed, outcomes, essays_data, run_error,
                    snap >>

\* paywall of handle_paywall when asyncio.wait(return_when=FIRST_COMPLETED)
\* has put the tasks of `done` in its done set: the pending tasks are
\* cancelled, and the results of the done ones alone are looked at.
paywall_found(page, done) == \E method_name \in done : method_name \in page.gate

\* The same step when the detector tasks may complete in any order: the done
\* set is any non-empty set of them (with three finds of 3 s under an
\* overall timeout of 5 s, one at least completes).
ProbeFirstCompleted(w) ==
    /\ phase = "fetching"
    /\ pc[w] = "probe"
    /\ browser.alive
    /\ \E done \in (SUBSET paywall_detection_tasks) \ {{}} :
          pc' = [pc EXCEPT ![w] = IF paywall_found(Page(tab), done) THEN "renav"
                                   ELSE "final"]
    /\ UNCHANGED << inputs, browser, disconnects, session_faults, md_files, html_files,
                    state_file, json_file, phase,
                    run, latest_date, scraped_urls, scraped_slugs, existing_urls,
                    filtered_urls, tab,
                    semaphore, fetched, completed, outcomes, essays_data, run_error,
                    snap >>

\* get_url_soup, paywall_handled: tab.go_to(url) once more.
ReNavigate(w) ==
    /\ phase = "fetching"
    /\ pc[w] = "renav"
    /\ browser.alive
    /\ tab' = filtered_urls[w]
    /\ pc' = [pc EXCEPT ![w] = "final"]
    /\ UNCHANGED << inputs, browser, disconnects, session_faults, md_files, html_files,
                    state_file, json_file, phase,
                    run, latest_date,
                    scraped_urls, scraped_slugs, existing_urls, filtered_urls,
                    semaphore, fetched, completed, outcomes, essays_data, run_error,
                    snap >>

\* get_url_soup, final paywall check on the page the tab shows: a gate while
\* not logged in makes get_url_soup return None.
FinalCheck(w) ==
    /\ phase = "fetching"
    /\ pc[w] = "final"
    /\ browser.alive
    /\ IF final_paywall(Page(tab)) /\ ~is_logged_in
       THEN Complete(w, None)
       ELSE /\ pc' = [pc EXCEPT ![w] = "source"]
            /\ UNCHANGED << fetched, completed, semaphore >>
    /\ UNCHANGED << inputs, browser, disconnects, session_faults, md_files, html_files,
                    state_file, json_file, phase,
                    run, latest_date, scraped_urls, scraped_slugs, existing_urls,
                    filtered_urls, tab,
                    outcomes, essays_data, run_error, snap >>

\* scrape_single_post_with_date once get_url_soup has returned the page the
\* tab shows: it takes the date from that page, extracts the post, saves the
\* markdown file (unless a file of that name exists) and the HTML file, and
\* returns the result.
ScrapeSoup(w) ==
    /\ LET url == filtered_urls[w]
           shown == tab
           date_str == DateStrOf(shown)
           raw == IF Page(shown).bad \/ HtmlSaveFails(url) THEN Raised
                  ELSE PostResult(url, shown)
       IN  /\ md_files' = IF Page(shown).bad THEN md_files
                          ELSE md_files \cup {MdFilename(url, date_str)}
           /\ html_files' = IF raw.kind = "raised" THEN html_files
                            ELSE html_files \cup {HtmlFilename(url, date_str)}
           /\ Complete(w, ExceptHandler(raw))
    /\ UNCHANGED << inputs, browser, disconnects, session_faults, state_file, json_file, phase, run,
                    latest_date, scraped_urls,
                    scraped_slugs, existing_urls, filtered_urls, tab, outcomes,
                    essays_data, run_error, snap >>

\* get_url_soup reads tab.page_source and returns it.
ReadSource(w) ==
    /\ phase = "fetching"
    /\ pc[w] = "source"
    /\ browser.alive
    /\ ScrapeSoup(w)

\* A tab operation of get_url_soup, between go_to(url) and page_source, raises
\* because the browser session is lost. The handler of get_url_soup reconnects
\* and retries only when the text of the error contains "Connect call failed"
\* and "9263"; for any other text it returns None. The reconnect is
\* ensure_browser_initialized, outside any try: when initialize_browser raises,
\* the exception leaves get_url_soup. Else the URL is loaded once more.
SessionError(w) ==
    /\ phase = "fetching"
    /\ pc[w] \in InNavigationSteps
    /\ ~browser.alive
    /\ \E connect_call_failed_9263 \in BOOLEAN :
          IF ~connect_call_failed_9263
          THEN /\ Complete(w, None)
               /\ UNCHANGED << browser, tab, session_faults >>
          ELSE \/ /\ session_faults > 0
                  /\ session_faults' = session_faults - 1
                  /\ browser' = Stopped(browser)
                  /\ Complete(w, ExceptHandler(Raised))
                  /\ UNCHANGED tab
               \/ /\ UNCHANGED session_faults
                  /\ browser' = ensure_browser_initialized(browser)
                  /\ tab' = filtered_urls[w]
                  /\ pc' = [pc EXCEPT ![w] = "retry"]
                  /\ UNCHANGED << fetched, completed, semaphore >>
    /\ UNCHANGED << inputs, disconnects, md_files, html_files, state_file, json_file, phase, run,
                    latest_date, scraped_urls, scraped_slugs, existing_urls,
                    filtered_urls, outcomes, essays_data, run_error, snap >>

\* The retry of get_url_soup after its sleep: page_source is read and returned
\* with no paywall check; when it raises, get_url_soup returns None.
RetryRead(w) ==
    /\ phase = "fetching"
    /\ pc[w] = "retry"
    /\ IF browser.alive
       THEN ScrapeSoup(w)
       ELSE /\ Complete(w, None)
            /\ UNCHANGED << inputs, browser, disconnects, session_faults, md_files,
                            html_files, state_file, json_file, phase, run, latest_date,
                            scraped_urls, scraped_slugs, existing_urls, filtered_urls,
                            tab, outcomes, essays_data, run_error, snap >>

\* The environment: the connection to the browser is lost while tasks run.
Disconnect ==
    /\ phase = "fetching"
    /\ browser.alive
    /\ disconnects > 0
    /\ disconnects' = disconnects - 1
    /\ browser' = [browser EXCEPT !.alive = FALSE]
    /\ UNCHANGED << inputs, session_faults, md_files, html_files, state_file, json_file, phase,
                    run, latest_date, scraped_urls, scraped_slugs, existing_urls,
                    filtered_urls, pc, semaphore, tab, fetched, completed, outcomes,
                    essays_data, run_error, snap >>

\* The results the as_completed loop receives: those of the completed tasks
\* in completion order, up to the first task that raises.
RECURSIVE Received(_)
Received(order) ==
    IF order = << >> THEN << >>
    ELSE IF TaskResult(Head(order)).kind = "raised" THEN << >>
    ELSE <<TaskResult(Head(order))>> \o Received(Tail(order))

IsPost(r) == r.kind = "post"

\* new_state of scrape_posts.
NewState(essays, urls, slugs) ==
    LET latest_post == MaxByDate(Head(essays), Tail(essays))
    IN  [exists |-> TRUE, latest_post_date |-> latest_post.date_str,
         latest_post_url |-> latest_post.url,
         scraped_urls |-> urls, scraped_slugs |-> slugs]

\* save_essays_data_to_json: the items of the file, then the new items that
\* are not among them.
save_essays_data_to_json(existing_data, essays) ==
    LET IsNew(data) == \A i \in 1..Len(existing_data) : existing_data[i] # data
    IN  existing_data \o SelectSeq(essays, IsNew)

\* The as_completed loop has ended without an exception, there are results
\* and the mode is continuous: save_scraping_state is called.
StateIsSaved ==
    LET got == Received(completed)
    IN  Len(got) = Len(completed) /\ SelectSeq(got, IsPost) # << >> /\ continuous

\* scrape_posts once every task has completed: the as_completed loop has
\* added each truthy result to essays_data and its URL and slug to the sets;
\* with results, they are merged into the aggregated results file and the
\* state is saved in continuous mode. A task that raised
\* ends the loop and scrape_posts with that exception. `written` is the
\* content save_scraping_state leaves in the state file.
EndRun(written) ==
    /\ phase = "fetching"
    /\ \A w \in Tasks : pc[w] = "done"
    /\ LET got == Received(completed)
           essays == SelectSeq(got, IsPost)
           urls == scraped_urls \cup {essays[i].url : i \in 1..Len(essays)}
           slugs == scraped_slugs \cup
                      {get_url_slug_from_url(essays[i].url) : i \in 1..Len(essays)}
           failed == Len(got) < Len(completed)
       IN  /\ outcomes' = got
           /\ essays_data' = essays
           /\ scraped_urls' = urls
           /\ scraped_slugs' = slugs
           /\ run_error' = failed
           /\ json_file' = IF ~failed /\ essays # << >>
                           THEN save_essays_data_to_json(json_file, essays)
                           ELSE json_file
           /\ state_file' = IF StateIsSaved
                            THEN IF written = "all" THEN NewState(essays, urls, slugs)
                                 ELSE Truncated
                            ELSE state_file
    /\ phase' = "idle"
    /\ UNCHANGED << inputs, disconnects, session_faults, md_files, html_files, run,
                    latest_date,
                    existing_urls,
                    filtered_urls, pc, semaphore, tab, fetched, completed, snap >>

\* The run ends; the finally of PydollSubstackScraper.scrape_posts stops the
\* browser.
Finish ==
    /\ EndRun("all")
    /\ browser' = Stopped(browser)

\* The process is killed inside save_scraping_state, after the file has been
\* opened for writing and before the text is written out and flushed.
CrashInSave ==
    /\ StateIsSaved
    /\ EndRun("part")
    /\ UNCHANGED browser

\* The steps of a run that has started.
RunSteps ==
    \/ \E w \in Tasks : Acquire(w)
    \/ \E w \in Tasks : GoTo(w)
    \/ \E w \in Tasks : Probe(w)
    \/ \E w \in Tasks : ReNavigate(w)
    \/ \E w \in Tasks : FinalCheck(w)
    \/ \E w \in Tasks : ReadSource(w)
    \/ Finish

Next ==
    \/ StartRun
    \/ RunSteps

\* The first run of the scraper.
FirstRun ==
    /\ run = 0
    /\ StartRun

\* One run with the losses of the browser session a fetch can meet.
NextFetch ==
    \/ FirstRun
    \/ RunSteps
    \/ \E w \in Tasks : SessionError(w)
    \/ \E w \in Tasks : RetryRead(w)

\* One run in an environment that drops the connection to the browser.
NextSession ==
    \/ NextFetch
    \/ Disconnect

\* One run, which may be killed while it saves the state.
NextStore ==
    \/ FirstRun
    \/ RunSteps
    \/ CrashInSave

\* One run on a stable session, in which the detector tasks of
\* handle_paywall complete in any order.
NextPaywall ==
    \/ FirstRun
    \/ \E w \in Tasks : Acquire(w)
    \/ \E w \in Tasks : GoTo(w)
    \/ \E w \in Tasks : ProbeFirstCompleted(w)
    \/ \E w \in Tasks : ReNavigate(w)
    \/ \E w \in Tasks : FinalCheck(w)
    \/ \E w \in Tasks : ReadSource(w)
    \/ Finish

\* One run in which the connection is lost and the tasks go through
\* ensure_browser_initialized step by step.
NextReconnect ==
    \/ FirstRun
    \/ Disconnect
    \/ \E w \in Tasks : Acquire(w)
    \/ \E w \in Tasks : EnsureStop(w)
    \/ \E w \in Tasks : EnsureStart(w)
    \/ \E w \in Tasks : browser.alive /\ GoTo(w)
    \/ \E w \in Tasks : Probe(w)
    \/ \E w \in Tasks : ReNavigate(w)
    \/ \E w \in Tasks : FinalCheck(w)
    \/ \E w \in Tasks : ReadSource(w)
    \/ \E w \in Tasks : SessionError(w)
    \/ \E w \in Tasks : RetryRead(w)
    \/ Finish

NextDiscovery == Discover

----------------------------------------------------------------------------
(* main                                                                    *)

\* The variables of a scraper and its run that main does not touch itself.
scraper_config == << continuous, num_posts_to_scrape, max_concurrent, is_logged_in,
                     credentials, manual_login, sitemap, feed, login_error,
                     login_vars >>

run_vars == << disconnects, run, latest_date, scraped_urls, scraped_slugs,
              existing_urls, filtered_urls, pc, semaphore, tab, fetched, completed,
              outcomes, essays_data, session_faults, snap >>

files == << md_files, html_files, state_file, json_file >>

NoValidation(a) == FALSE

\* The validation of main: manual login together with headless mode, or
\* delay-min greater than delay-max.
ConfigError(a) ==
    \/ manual_login /\ a.headless
    \/ a.delay_min > a.delay_max

BreakAlways(cont, interval) == TRUE

\* "if not args.continuous or args.interval <= 0: break"
ShouldBreak(cont, interval) == ~cont \/ interval <= 0

\* The finally of main, reached with `status`: a shared browser is stopped.
\* Every browser a call has returned was stopped by the scrape_posts that
\* started it, and stop() on a browser that is not running may raise.
Finally(status) ==
    /\ main_pc' = "exit"
    /\ exit_status' \in IF shared_browser THEN {status, "raised"} ELSE {status}

\* main up to its loop: no publication, or a configuration error, ends the
\* process by sys.exit(1).
Validate ==
    /\ main_pc = "start"
    /\ IF unique_urls = << >> \/ ConfigError(args)
       THEN /\ main_pc' = "exit"
            /\ exit_status' = "1"
       ELSE /\ main_pc' = "loop"
            /\ UNCHANGED exit_status
    /\ UNCHANGED << args, wait_time, unique_urls, url_index, calls, shared_browser, interrupted,
                    disk, scraper_config, run_vars, files, post_urls, requested,
                    browser, phase, run_error >>

\* The publication of the scraper constructed last (0: none yet).
InHand ==
    IF calls = 0 THEN 0
    ELSE IF url_index = 0 THEN unique_urls[Len(unique_urls)]
    ELSE unique_urls[url_index]

\* The for loop of main takes the next publication and calls
\* scrape_single_url, which constructs a scraper for it: the constructor
\* makes the discovery requests, and the scraper works on the directories
\* and the state file of its publication.
ScrapeSingleUrl ==
    /\ main_pc = "loop"
    /\ url_index < Len(unique_urls)
    /\ calls < MaxRuns
    /\ url_index' = url_index + 1
    /\ calls' = calls + 1
    /\ main_pc' = "url"
    /\ requested' = requested \o RequestsMade(sitemap)
    /\ post_urls' = get_all_post_urls(sitemap, feed)
    /\ LET left == [md |-> md_files, html |-> html_files, state |-> state_file,
                    json |-> json_file]
           shelf == IF InHand = 0 THEN disk ELSE [disk EXCEPT ![InHand] = left]
           taken == shelf[unique_urls[url_index + 1]]
       IN  /\ disk' = shelf
           /\ md_files' = taken.md
           /\ html_files' = taken.html
           /\ state_file' = taken.state
           /\ json_file' = taken.json
    /\ UNCHANGED << args, wait_time, unique_urls, shared_browser, interrupted,
                    exit_status, scraper_config, run_vars, browser, phase, run_error >>

\* scrape_single_url awaits scrape_posts of the scraper it constructed.
CallScrapePosts ==
    /\ main_pc = "url"
    /\ run < calls
    /\ StartRun

\* scrape_single_url has returned or raised. An exception is caught by the
\* handler of the for loop, which goes on to the next publication in
\* continuous mode and raises it again otherwise.
Returned ==
    /\ main_pc = "url"
    /\ run = calls
    /\ phase = "idle"
    /\ IF run_error
       THEN IF continuous
            THEN /\ main_pc' = "loop"
                 /\ UNCHANGED << exit_status, shared_browser >>
            ELSE /\ Finally("raised")
                 /\ UNCHANGED shared_browser
       ELSE /\ main_pc' = "loop"
            /\ shared_browser' = TRUE
            /\ UNCHANGED exit_status
    /\ UNCHANGED << args, wait_time, unique_urls, url_index, calls, interrupted, disk,
                    scraper_config, run_vars, files, post_urls, requested, browser,
                    phase, run_error >>

\* The for loop is over: main leaves the while loop, or it sleeps for what
\* is left of the interval; when the pass took longer than the interval no
\* time is left and the next pass begins at once.
EndOfPass ==
    /\ main_pc = "loop"
    /\ url_index = Len(unique_urls)
    /\ IF ShouldBreak(continuous, args.interval)
       THEN /\ Finally("0")
            /\ UNCHANGED << url_index, wait_time >>
       ELSE /\ wait_time' \in {0, 1}
            /\ IF wait_time' > 0
               THEN main_pc' = "sleep" /\ UNCHANGED url_index
               ELSE main_pc' = "loop" /\ url_index' = 0
            /\ UNCHANGED exit_status
    /\ UNCHANGED << args, unique_urls, calls, shared_browser, interrupted, disk,
                    scraper_config, run_vars, files, post_urls, requested, browser,
                    phase, run_error >>

\* asyncio.sleep(wait_time) returns: the next pass begins.
Wake ==
    /\ main_pc = "sleep"
    /\ main_pc' = "loop"
    /\ url_index' = 0
    /\ UNCHANGED << args, wait_time, unique_urls, calls, shared_browser, interrupted, exit_status,
                    disk, scraper_config, run_vars, files, post_urls, requested,
                    browser, phase, run_error >>

\* The process is interrupted (Ctrl+C). asyncio.run cancels the task of
\* main, which gets the cancellation at the await it is suspended in. In a
\* call of scrape_single_url that is "await scrape_posts": the exception is
\* no Exception, so the handler of the for loop lets it pass; it leaves
\* scrape_posts through its finally, which stops the browser, and main
\* through its finally. In the sleep it is the await of asyncio.sleep, whose
\* handler catches a KeyboardInterrupt only.
Interrupt ==
    /\ ~interrupted
    /\ interrupted' = TRUE
    /\ \/ /\ main_pc = "url"
          /\ ~(run = calls /\ phase = "idle")
          /\ phase' = "idle"
          /\ run_error' = TRUE
          /\ browser' = IF phase = "fetching" THEN Stopped(browser) ELSE browser
          /\ Finally("interrupt")
       \/ /\ main_pc = "sleep"
          /\ \E keyboard_interrupt \in BOOLEAN :
                Finally(IF keyboard_interrupt THEN "0" ELSE "interrupt")
          /\ UNCHANGED << browser, phase, run_error >>
    /\ UNCHANGED << args, wait_time, unique_urls, url_index, calls, shared_browser, disk,
                    scraper_config, run_vars, files, post_urls, requested >>

\* main over the runs of the scrapers it constructs.
NextMain ==
    \/ Validate
    \/ ScrapeSingleUrl
    \/ CallScrapePosts
    \/ RunSteps
    \/ Returned
    \/ EndOfPass
    \/ Wake
    \/ Interrupt

----------------------------------------------------------------------------
(* login()                                                                 *)

\* Where the tab is after the form was submitted. A URL is the sequence of
\* its host and its path.
SignInUrl == <<"substack.com", "sign-in">>
HomeUrl == <<"substack.com", "home">>
ElsewhereUrl == <<"example.com", "verify">>
ElsewhereSignInUrl == <<"example.com", "sign-in">>

\* What login() can find: whether perform_login_on_page could submit the
\* form, the URL of the tab afterwards, and which of the elements Method 2
\* looks for are on the page. Whether the page has the error container is
\* login_error.
SignInPages ==
    [submit : BOOLEAN,
     current_url : {SignInUrl, HomeUrl, ElsewhereUrl, ElsewhereSignInUrl},
     user_menu : BOOLEAN, dashboard_link : BOOLEAN, home_title : BOOLEAN]

\* "Method 1: Check if we're redirected away from sign-in page"
Method1(p) ==
    /\ ~Contains(p.current_url, <<"sign-in">>)
    /\ Contains(p.current_url, <<"substack.com">>)

\* "Method 2: Check for user menu or dashboard elements"
Method2(p) == p.user_menu \/ p.dashboard_link \/ p.home_title

\* login_success of login(): Method 2 is tried only when Method 1 failed.
login_success(p) == IF Method1(p) THEN TRUE ELSE Method2(p)

FlagOnlyOnEvidence(p) == login_success(p)

\* self.is_logged_in once the error check has passed: set on success, and
\* set "optimistically" without it.
FlagAfterVerify(p) == IF login_success(p) THEN TRUE ELSE TRUE

\* initialize_browser() called on the scraper before login(), as the login
\* tests and scrape_posts do.
InitializeBrowser ==
    /\ login_pc = "new"
    /\ login_pc' = "start"
    /\ browser' = initialize_browser(browser)
    /\ UNCHANGED << post_urls, continuous, num_posts_to_scrape, max_concurrent,
                    is_logged_in, credentials, manual_login, sitemap, feed, requested,
                    login_error, main_vars, sign_in_page, run_vars, files, phase,
                    run_error >>

\* login() up to the verification: it returns at once without credentials,
\* raises without a tab, and else opens the sign-in page and calls
\* perform_login_on_page, which raises when it cannot submit the form.
SignIn ==
    /\ login_pc \in {"new", "start"}
    /\ IF ~credentials
       THEN /\ login_pc' = "returned"
            /\ UNCHANGED browser
       ELSE IF ~browser.alive
       THEN /\ login_pc' = "raised"
            /\ UNCHANGED browser
       ELSE IF ~sign_in_page.submit
       THEN /\ login_pc' = "raised"
            /\ UNCHANGED browser
       ELSE /\ login_pc' = "verify"
            /\ browser' = login(browser)
    /\ UNCHANGED << post_urls, continuous, num_posts_to_scrape, max_concurrent,
                    is_logged_in, credentials, manual_login, sitemap, feed, requested,
                    login_error, main_vars, sign_in_page, run_vars, files, phase,
                    run_error >>

\* The verification of login(): Method 1, Method 2, then the error
\* container, which raises whatever the methods found; then the flag.
VerifyLogin ==
    /\ login_pc = "verify"
    /\ IF login_error
       THEN /\ login_pc' = "raised"
            /\ UNCHANGED is_logged_in
       ELSE /\ login_pc' = "returned"
            /\ is_logged_in' = FlagAfterVerify(sign_in_page)
    /\ UNCHANGED << post_urls, continuous, num_posts_to_scrape, max_concurrent,
                    credentials, manual_login, sitemap, feed, requested, login_error,
                    main_vars, sign_in_page, run_vars, files, phase, run_error,
                    browser >>

NextLogin == InitializeBrowser \/ SignIn \/ VerifyLogin

----------------------------------------------------------------------------
(* Specifications                                                          *)

\* All candidate lists of at most `longest` URLs drawn from `pool`.
Lists(pool, longest) == UNION {[1..n -> pool] : n \in 0..longest}

\* A state file a previous continuous run left: one post of 2024-01-01.
UrlO == <<"s", "/", "o">>
OldState ==
    [exists |-> TRUE, latest_post_date |-> Date20240101, latest_post_url |-> UrlO,
     scraped_urls |-> {UrlO}, scraped_slugs |-> {get_url_slug_from_url(UrlO)}]

\* A state file of a version that kept scraped_urls only: it has no
\* scraped_slugs key, for which scrape_posts takes the empty list.
LegacyState ==
    [exists |-> TRUE, latest_post_date |-> Date20240101, latest_post_url |-> UrlO,
     scraped_urls |-> {UrlO}, scraped_slugs |-> {}]

\* The scraper was constructed over a sitemap listing post_urls.
Discovered ==
    /\ sitemap = Listing(post_urls)
    /\ feed = Unreachable
    /\ requested = RequestsMade(sitemap)

\* No login is configured, or credentials are, and the connection is stable.
PlainSession ==
    /\ credentials = is_logged_in
    /\ manual_login = FALSE
    /\ disconnects = 0

\* The scraper is used on its own, not from main.
NoMainLoop ==
    /\ args = [headless |-> FALSE, delay_min |-> 1, delay_max |-> 3, interval |-> 0]
    /\ unique_urls = << >>
    /\ main_pc = "none"
    /\ url_index = 0
    /\ calls = 0
    /\ wait_time = 0
    /\ shared_browser = FALSE
    /\ interrupted = FALSE
    /\ exit_status = "running"
    /\ disk = << >>

\* The scraper is used on its own, and logins succeed.
NoMain ==
    /\ login_error = FALSE
    /\ NoMainLoop

\* No login() call is followed step by step.
NoLogin ==
    /\ login_pc = "none"
    /\ sign_in_page = << >>

\* No run started yet.
InitRun ==
    /\ browser = NoBrowser
    /\ run = 0
    /\ phase = "idle"
    /\ latest_date = << >>
    /\ scraped_urls = {}
    /\ scraped_slugs = {}
    /\ existing_urls = {}
    /\ filtered_urls = << >>
    /\ pc = << >>
    /\ fetched = << >>
    /\ semaphore = SemaphoreLimit
    /\ tab = Blank
    /\ completed = << >>
    /\ outcomes = << >>
    /\ essays_data = << >>
    /\ run_error = FALSE
    /\ snap = [md |-> md_files, html |-> html_files, state |-> state_file,
               json |-> json_file, incidents |-> session_faults + disconnects]

\* Continuous runs over an empty output directory, with and without a
\* stored state, logged in or not.
Init ==
    /\ post_urls \in Lists({UrlA, UrlC, UrlA2, UrlN}, MaxUrls)
    /\ continuous = TRUE
    /\ num_posts_to_scrape = 0
    /\ max_concurrent = SemaphoreLimit
    /\ is_logged_in \in BOOLEAN
    /\ session_faults = 0
    /\ md_files = {}
    /\ html_files = {}
    /\ state_file \in {NoState, OldState}
    /\ json_file = << >>
    /\ Discovered
    /\ PlainSession
    /\ NoMain
    /\ NoLogin
    /\ InitRun

Spec == Init /\ [][Next]_vars

\* A non-continuous run over an empty output directory, not logged in, for
\* every configured concurrency limit; some of the items fail: s/x in the
\* extraction, s/v in the navigation, s/h when its HTML file is saved, and
\* any item when the browser session is broken and cannot be restarted.
InitConc ==
    /\ post_urls \in Lists({UrlB, UrlC, UrlX, UrlV, UrlH}, MaxUrls)
    /\ continuous = FALSE
    /\ num_posts_to_scrape = 0
    /\ max_concurrent \in 1..SemaphoreLimit
    /\ is_logged_in = FALSE
    /\ session_faults \in 0..MaxSessionFaults
    /\ md_files = {}
    /\ html_files = {}
    /\ state_file = NoState
    /\ json_file = << >>
    /\ Discovered
    /\ PlainSession
    /\ NoMain
    /\ NoLogin
    /\ InitRun

SpecConc == InitConc /\ [][NextFetch]_vars

\* Files found in md_save_dir: a date-prefixed file for slug "a", which is at
\* the same time the legacy file of the slug "20240101-a"; a legacy file for
\* slug "b"; a file as scrape_single_post_with_date names it.
FileDatedA == <<"2", "0", "2", "4", "0", "1", "0", "1", "-", "a", ".", "m", "d">>
FileLegacyB == <<"b", ".", "m", "d">>
FileWrittenC == MdFilename(UrlC, Date20240101)

\* The dedup filter on its own: every candidate list, cap, mode, stored state
\* and output directory of the sets below.
InitDedup ==
    /\ post_urls \in Lists({UrlA, UrlB, UrlC, UrlA2, UrlDated}, MaxCandidates)
    /\ continuous \in BOOLEAN
    /\ num_posts_to_scrape \in 0..2
    /\ max_concurrent = SemaphoreLimit
    /\ is_logged_in = FALSE
    /\ session_faults = 0
    /\ md_files \in SUBSET {FileDatedA, FileLegacyB, FileWrittenC}
    /\ html_files = {}
    /\ state_file \in {NoState, OldState}
    /\ json_file = << >>
    /\ Discovered
    /\ PlainSession
    /\ NoMain
    /\ NoLogin
    /\ InitRun

\* The start of a run (state load, inventory scan, cap, filter) and no more.
NextDedup == StartRun

SpecDedup == InitDedup /\ [][NextDedup]_vars

\* A non-continuous run over gated pages in every login
\* configuration (none, credentials, manual login), while the connection to
\* the browser may be lost and a restart of the browser may fail.
InitSession ==
    /\ post_urls \in Lists({UrlC, UrlT}, MaxSessionUrls)
    /\ continuous = FALSE
    /\ num_posts_to_scrape = 0
    /\ max_concurrent = SemaphoreLimit
    /\ credentials \in BOOLEAN
    /\ manual_login \in BOOLEAN
    /\ ~(credentials /\ manual_login)
    /\ is_logged_in = (credentials \/ manual_login)
    /\ disconnects \in 0..MaxDisconnects
    /\ session_faults \in 0..MaxSessionFaults
    /\ md_files = {}
    /\ html_files = {}
    /\ state_file = NoState
    /\ json_file = << >>
    /\ Discovered
    /\ NoMain
    /\ NoLogin
    /\ InitRun

SpecSession == InitSession /\ [][NextSession]_vars

\* One run over gated and open pages on a session that is never lost.
InitPaywall ==
    /\ post_urls \in Lists({UrlB, UrlC, UrlT}, MaxSessionUrls)
    /\ continuous = FALSE
    /\ num_posts_to_scrape = 0
    /\ max_concurrent = SemaphoreLimit
    /\ credentials \in BOOLEAN
    /\ manual_login = FALSE
    /\ is_logged_in = credentials
    /\ disconnects = 0
    /\ session_faults = 0
    /\ md_files = {}
    /\ html_files = {}
    /\ state_file = NoState
    /\ json_file = << >>
    /\ Discovered
    /\ NoMain
    /\ NoLogin
    /\ InitRun

SpecPaywall == InitPaywall /\ [][NextPaywall]_vars

\* One run over open pages, with or without credentials, on a connection
\* that can be lost; initialize_browser does not fail.
InitReconnect ==
    /\ post_urls \in Lists({UrlB, UrlC}, MaxSessionUrls)
    /\ continuous = FALSE
    /\ num_posts_to_scrape = 0
    /\ max_concurrent = SemaphoreLimit
    /\ credentials \in BOOLEAN
    /\ manual_login = FALSE
    /\ is_logged_in = credentials
    /\ disconnects \in 0..MaxDisconnects
    /\ session_faults = 0
    /\ md_files = {}
    /\ html_files = {}
    /\ state_file = NoState
    /\ json_file = << >>
    /\ Discovered
    /\ NoMain
    /\ NoLogin
    /\ InitRun

SpecReconnect == InitReconnect /\ [][NextReconnect]_vars

\* A run in either mode from every kind of state file: none, one of an
\* earlier run, one without scraped_slugs, one cut short; the run may be
\* killed while it saves the state.
InitStore ==
    /\ post_urls \in Lists({UrlO, UrlA2, UrlC, UrlE}, MaxUrls)
    /\ continuous \in BOOLEAN
    /\ num_posts_to_scrape = 0
    /\ max_concurrent = SemaphoreLimit
    /\ is_logged_in = FALSE
    /\ session_faults = 0
    /\ md_files = {}
    /\ html_files = {}
    /\ state_file \in {NoState, OldState, LegacyState, Truncated}
    /\ json_file \in {<< >>, <<PostResult(UrlE, UrlE)>>}
    /\ Discovered
    /\ PlainSession
    /\ NoMain
    /\ NoLogin
    /\ InitRun

SpecStore == InitStore /\ [][NextStore]_vars

\* The lists a sitemap or a feed may give: posts, an excluded page and a
\* post of a host whose name contains a keyword.
Responses ==
    {Unreachable, TimedOut, BadStatus, Malformed}
        \cup {Listing(urls) :
                 urls \in Lists({UrlA, UrlB, UrlAbout, UrlHostAbout}, MaxListed)}

\* The construction of a scraper for every answer to the two requests.
InitDiscovery ==
    /\ sitemap \in Responses
    /\ feed \in Responses
    /\ requested = << >>
    /\ post_urls = << >>
    /\ continuous = FALSE
    /\ num_posts_to_scrape = 0
    /\ max_concurrent = SemaphoreLimit
    /\ is_logged_in = FALSE
    /\ session_faults = 0
    /\ md_files = {}
    /\ html_files = {}
    /\ state_file = NoState
    /\ json_file = << >>
    /\ PlainSession
    /\ NoMain
    /\ NoLogin
    /\ InitRun

SpecDiscovery == InitDiscovery /\ [][NextDiscovery]_vars

\* The publications main is given.
Publications == {[i \in 1..n |-> i] : n \in 0..MaxPublications}

\* main for every configuration of the sets below: with and without a
\* configuration error, in either mode, with and without an interval, with
\* no login, a login that succeeds, a login that fails, or a manual login;
\* every publication lists the same candidates and starts with empty
\* directories.
InitMain ==
    /\ unique_urls \in Publications
    /\ args \in [headless : BOOLEAN, delay_min : {1, 5}, delay_max : {3},
                  interval : {0, 30}]
    /\ continuous \in BOOLEAN
    /\ credentials \in BOOLEAN
    /\ manual_login \in BOOLEAN
    /\ ~(credentials /\ manual_login)
    /\ login_error \in BOOLEAN
    /\ login_error => credentials
    /\ is_logged_in = ((credentials /\ ~login_error) \/ manual_login)
    /\ sitemap \in {Listing(urls) : urls \in Lists({UrlA, UrlC}, MaxMainUrls)}
    /\ feed = Unreachable
    /\ requested = << >>
    /\ post_urls = << >>
    /\ num_posts_to_scrape = 0
    /\ max_concurrent = SemaphoreLimit
    /\ disconnects = 0
    /\ session_faults = 0
    /\ md_files = {}
    /\ html_files = {}
    /\ state_file = NoState
    /\ json_file = << >>
    /\ disk = [i \in 1..Len(unique_urls) |->
                 [md |-> {}, html |-> {}, state |-> NoState, json |-> << >>]]
    /\ main_pc = "start"
    /\ url_index = 0
    /\ calls = 0
    /\ wait_time = 0
    /\ shared_browser = FALSE
    /\ interrupted = FALSE
    /\ exit_status = "running"
    /\ NoLogin
    /\ InitRun

SpecMain == InitMain /\ [][NextMain]_vars

\* One login() call: with and without credentials, before and after
\* initialize_browser(),
\* on every sign-in page of SignInPages.
InitLogin ==
    /\ login_pc = "new"
    /\ sign_in_page \in SignInPages
    /\ credentials \in BOOLEAN
    /\ manual_login = FALSE
    /\ is_logged_in = FALSE
    /\ login_error \in BOOLEAN
    /\ post_urls = << >>
    /\ continuous = FALSE
    /\ num_posts_to_scrape = 0
    /\ max_concurrent = SemaphoreLimit
    /\ disconnects = 0
    /\ session_faults = 0
    /\ md_files = {}
    /\ html_files = {}
    /\ state_file = NoState
    /\ json_file = << >>
    /\ Discovered
    /\ NoMainLoop
    /\ InitRun

SpecLogin == InitLogin /\ [][NextLogin]_vars

----------------------------------------------------------------------------
(* Claims about repeated continuous runs (Spec)                             *)

\* A run has ended and no other has started since.
RunEnded == phase = "idle" /\ run > 0

\* The run that ended was a continuous one with a stored watermark.
WatermarkRun == RunEnded /\ continuous /\ latest_date # << >>

\* Task w fetched a post whose date is not strictly newer than the watermark.
FetchedOld(w) == fetched[w].kind = "post" /\ StrLeq(fetched[w].date_str, latest_date)

AcceptedUrls == {essays_data[i].url : i \in 1..Len(essays_data)}

AcceptedSlugs == {get_url_slug_from_url(u) : u \in AcceptedUrls}

\* C7: with the candidates and the pages unchanged, a second continuous run
\* writes no new artifact file and leaves scraped_slugs of the state file as
\* the first run left it.
C7_SecondRunChangesNothing ==
    (RunEnded /\ continuous /\ run >= 2) =>
        /\ md_files = snap.md
        /\ html_files = snap.html
        /\ state_file.scraped_slugs = snap.state.scraped_slugs

C10_OldItemNotPersisted ==
    WatermarkRun =>
        \A w \in Tasks : FetchedOld(w) =>
            /\ MdFilename(fetched[w].url, fetched[w].date_str) \notin md_files
            /\ HtmlFilename(fetched[w].url, fetched[w].date_str) \notin html_files

\* The page read for a result has no date element, or one whose text
\* dateparser cannot parse.
Undated(shown) == DateParse(Page(shown).date_text) = NoDate

\* C27: a result built from a page without a determinable date has the
\* date_str "19700101", and its markdown file was saved under a name with
\* the prefix "19700101".
C27_UndatedItemCarriesSentinel ==
    \A w \in Tasks :
        (fetched[w].kind = "post" /\ Undated(fetched[w].content)) =>
            /\ fetched[w].date_str = Sentinel
            /\ SubSeq(MdFilename(fetched[w].url, fetched[w].date_str), 1, 8) = Sentinel
            /\ MdFilename(fetched[w].url, fetched[w].date_str) \in md_files

\* C28: the latest_post_date a continuous run has stored is not the date
\* string of an item without a determinable date, and latest_post_url is not
\* the URL of such an item of the run.
C28_UndatedItemNeverLatest ==
    (RunEnded /\ continuous /\ essays_data # << >> /\ state_file # snap.state) =>
        /\ state_file.latest_post_date \notin {Sentinel, DateUnset}
        /\ \A i \in 1..Len(essays_data) :
              Undated(essays_data[i].content) =>
                  state_file.latest_post_url # essays_data[i].url

----------------------------------------------------------------------------
(* Claims about the fetch workers of one run (SpecConc)                     *)

\* C1: at most one task is between the go_to of get_url_soup and its read of
\* page_source on the shared tab.
C1_OneNavigationAtATime == Cardinality(InNavigation) <= 1

\* C2: at most max_concurrent tasks are inside the semaphore-guarded section.
C2_AtMostMaxConcurrent == Cardinality(InSemaphore) <= max_concurrent

\* C3: the result of a task is built from the page of the task's own URL.
C3_ResultFromOwnPage ==
    \A w \in Tasks : fetched[w].kind = "post" => fetched[w].content = fetched[w].url

\* The fetch of this item ends in an exception.
Faulty(url) == Page(url).bad \/ NavFails(url) \/ HtmlSaveFails(url)

\* C4: no exception leaves scrape_single_post_with_date or scrape_posts: a
\* task that has completed has a result or None, and a run that has ended has
\* collected the outcome of every work item.
C4_FailureIsolated ==
    /\ ~run_error
    /\ \A w \in Tasks : pc[w] = "done" => fetched[w].kind \in {"post", "none"}
    /\ RunEnded => Len(outcomes) = Len(filtered_urls)

\* A run has ended in which one item failed with an exception, which became
\* None, and another item gave a result; both outcomes were collected.
C4_Witness ==
    /\ RunEnded
    /\ Len(outcomes) = Len(filtered_urls)
    /\ \E w \in Tasks : Faulty(filtered_urls[w]) /\ fetched[w] = None
    /\ \E w \in Tasks : fetched[w].kind = "post"

\* The file is a markdown artifact of the item: its name is the one
\* scrape_single_post_with_date gives the item with the date of some page
\* the tab showed during the run.
ArtifactOf(url, f) ==
    \E i \in 1..Len(filtered_urls) : f = MdFilename(url, DateStrOf(filtered_urls[i]))

\* No other work item has the URL or the slug of item w.
OnlyItemOfSlug(w) ==
    \A v \in Tasks \ {w} :
        get_url_slug_from_url(filtered_urls[v]) # get_url_slug_from_url(filtered_urls[w])

\* C38: a fetch that ended in failure (scrape_single_post_with_date returned
\* None) wrote no markdown artifact for its item, and the dedup filter of a
\* next run over the directory as it is now lets the item through again.
C38_FailedFetchLeavesNoArtifact ==
    \A w \in Tasks :
        (pc[w] = "done" /\ fetched[w] = None /\ OnlyItemOfSlug(w)) =>
            /\ \A f \in md_files \ snap.md : ~ArtifactOf(filtered_urls[w], f)
            /\ FilterLoop(<<filtered_urls[w]>>, continuous, scraped_urls, scraped_slugs,
                          _get_existing_urls_from_files(md_files), md_files)
                   = <<filtered_urls[w]>>

----------------------------------------------------------------------------
(* Claims about the dedup filter (SpecDedup)                                *)

\* The inventory of the output directory the run started with.
Inventory == _get_existing_urls_from_files(snap.md)

\* The candidate neither has its slug in the inventory nor a legacy file.
NotMaterialized(url) ==
    /\ get_url_slug_from_url(url) \notin Inventory
    /\ get_filename_from_url(url, ExtMd) \notin snap.md

\* C5: in non-continuous mode no URL of the work list has a slug that the
\* inventory scan recovered.
C5_NoInventorySlugInWorkList ==
    (run > 0 /\ ~continuous) =>
        \A i \in 1..Len(filtered_urls) :
            get_url_slug_from_url(filtered_urls[i]) \notin Inventory

\* A non-continuous run dropped a candidate whose slug is in the inventory
\* and kept another one.
C5_Witness ==
    /\ run > 0 /\ ~continuous
    /\ filtered_urls # << >>
    /\ \E i \in 1..Len(post_urls) : get_url_slug_from_url(post_urls[i]) \in Inventory

\* C6: in non-continuous mode the work list is the sub-sequence, in discovery
\* order, of the candidates that are not materialized: of all discovered
\* candidates without a cap, of the first num_posts_to_scrape with one.
C6_WorkListIsUnmaterializedCandidates ==
    (run > 0 /\ ~continuous) =>
        /\ filtered_urls =
              SelectSeq(UrlsToProcess(post_urls, num_posts_to_scrape), NotMaterialized)
        /\ num_posts_to_scrape = 0 =>
              filtered_urls = SelectSeq(post_urls, NotMaterialized)

\* Candidates [A, B, C] with only the slug of B in the inventory gave [A, C].
C6_Witness ==
    /\ run > 0 /\ ~continuous
    /\ post_urls = <<UrlA, UrlB, UrlC>>
    /\ Inventory = {get_url_slug_from_url(UrlB)}
    /\ filtered_urls = <<UrlA, UrlC>>

\* C29: with a cap, the work list is the first num_posts_to_scrape
\* candidates of those that survive the dedup filter.
C29_CapAppliedAfterDedup ==
    (run > 0 /\ num_posts_to_scrape > 0) =>
        LET state == LoadedState(continuous, snap.state)
        IN  filtered_urls =
                UrlsToProcess(FilterLoop(post_urls, continuous, state.scraped_urls,
                                         state.scraped_slugs, Inventory, snap.md),
                              num_posts_to_scrape)

\* The two documented artifact names of a slug.
DatedName(d, s) == d \o <<"-">> \o s \o ExtMd

LegacyName(s) == s \o ExtMd

\* C32: the inventory scan recovers the slug of a candidate from each of its
\* artifact names found in the output directory: from the date-prefixed
\* name, from the legacy name, and from the name under which
\* scrape_single_post_with_date writes the artifact.
C32_InventoryRecoversSlug ==
    run > 0 =>
        \A i \in 1..Len(post_urls) :
            LET s == get_url_slug_from_url(post_urls[i])
            IN  /\ DatedName(Date20240101, s) \in snap.md => s \in Inventory
                /\ LegacyName(s) \in snap.md => s \in Inventory
                /\ MdFilename(post_urls[i], Date20240101) \in snap.md => s \in Inventory

\* C34: no URL and no slug appears twice in the work list of a run, whatever
\* discovery returned (the same URL more than once included).
C34_WorkItemsDistinct ==
    run > 0 =>
        \A i, j \in 1..Len(filtered_urls) :
            i # j => /\ filtered_urls[i] # filtered_urls[j]
                     /\ get_url_slug_from_url(filtered_urls[i]) #
                            get_url_slug_from_url(filtered_urls[j])

----------------------------------------------------------------------------
(* Claims about paywalls and the browser session (SpecSession, SpecConc)    *)

\* The browser session met no incident since the run started.
NoIncident == session_faults + disconnects = snap.incidents

\* A run with a single work item has ended, no other task used the tab, and
\* the session met no incident.
SoloRunEnded == RunEnded /\ Len(filtered_urls) = 1 /\ NoIncident

\* The run wrote no markdown or HTML file.
NothingWritten == md_files = snap.md /\ html_files = snap.html

\* C11: a page that shows a gate marker of any detector of handle_paywall,
\* fetched without credentials and not logged in, gives None, leaves no
\* artifact, and the run ends without an exception.
C11_GatedItemSkipped ==
    (SoloRunEnded /\ ~credentials /\ ~is_logged_in
        /\ handle_paywall(Page(filtered_urls[1]))) =>
        /\ fetched[1] = None
        /\ NothingWritten
        /\ ~run_error

\* C12: the outcome of an item skipped for its paywall differs from the
\* outcome of an item whose navigation failed.
C12_SkipDistinctFromFailure ==
    (RunEnded /\ NoIncident /\ ~is_logged_in) =>
        \A w, v \in Tasks :
            (final_paywall(Page(filtered_urls[w])) /\ fetched[w] = None
                /\ NavFails(filtered_urls[v])) => fetched[w] # fetched[v]

\* C13: while logged in, a page on which the final check still detects the
\* gate gives None and leaves no artifact.
C13_StillGatedItemSkipped ==
    (SoloRunEnded /\ is_logged_in /\ final_paywall(Page(filtered_urls[1]))) =>
        /\ fetched[1] = None
        /\ NothingWritten

\* A task takes the step of get_url_soup that begins with
\* ensure_browser_initialized while the health check fails.
EnsureOnLostSession ==
    /\ phase = "fetching"
    /\ ~browser.alive
    /\ \E w \in Tasks : pc[w] = "sleep" /\ pc'[w] # "sleep"

\* One browser was stopped and one started, and the new one works.
OneRecreation ==
    /\ browser'.alive
    /\ browser'.starts = browser.starts + 1
    /\ browser'.stops = browser.stops + 1

C15_ReconnectAndRetryOnce ==
    [][\A w \in Tasks :
          (phase = "fetching" /\ ~browser.alive /\ pc[w] \in InNavigationSteps
              /\ pc'[w] # pc[w]) =>
              \/ pc'[w] = "retry" /\ browser'.alive
              \/ session_faults' < session_faults]_vars

\* C37: while is_logged_in is false, a task never gets from get_url_soup
\* the content of a page on which the final check detects a gate, whether
\* the page was read on the normal path or after a reconnect.
C37_NoGatedContentWhenLoggedOut ==
    \A w \in Tasks :
        (pc[w] = "done" /\ ~is_logged_in /\ fetched[w].kind = "post") =>
            ~final_paywall(Page(fetched[w].content))

\* C39: while a run has a working browser session and is_logged_in is true,
\* a login procedure was carried out on that session, reconnects and
\* manual-login mode included.
C39_LoggedInMeansLoginOnSession ==
    (phase = "fetching" /\ browser.alive /\ is_logged_in) => browser.auth

\* C33: when a run has ended, normally or by an exception, no browser
\* started during the run (at its start or by a reconnect, reconnects of
\* several tasks at once included) is left running.
C33_EveryBrowserStopped ==
    RunEnded => browser.running = {}

\* C35: the probe of handle_paywall sends a task to the re-navigation
\* exactly when a detector matches the page the tab shows, whatever the
\* order in which the detector tasks complete.
C35_GateIffSomeDetectorMatches ==
    [][\A w \in Tasks :
          (phase = "fetching" /\ pc[w] = "probe" /\ pc'[w] # "probe") =>
              (pc'[w] = "renav" <=> Page(tab).gate \cap paywall_detection_tasks # {})]_vars

----------------------------------------------------------------------------
(* Claims about the state file (SpecStore)                                  *)

\* C16: after a run, killed in save_scraping_state or not, the state file
\* holds the state the run started from or the complete new state.
C16_StateFileOldOrNew ==
    RunEnded =>
        \/ state_file = snap.state
        \/ /\ essays_data # << >>
           /\ state_file = NewState(essays_data, scraped_urls, scraped_slugs)

\* C17: in a state written by a run, scraped_slugs holds the final path
\* segment of every URL of scraped_urls.
C17_SlugsCoverUrls ==
    (RunEnded /\ state_file # snap.state) =>
        {get_url_slug_from_url(u) : u \in state_file.scraped_urls}
            \subseteq state_file.scraped_slugs

\* The work list of a first run: nothing seen, only the inventory counts.
FirstRunWorkList(cont) ==
    FilterLoop(UrlsToProcess(post_urls, num_posts_to_scrape), cont, {}, {},
               Inventory, snap.md)

\* C18: no exception leaves load_scraping_state, and a continuous run that
\* finds no state file, or one json.load rejects, has no latest date and the
\* work list of a first run.
C18_LoadNeverRaises ==
    /\ ~run_error
    /\ (run > 0 /\ continuous /\ (~snap.state.exists \/ ~IsJson(snap.state))) =>
          /\ latest_date = << >>
          /\ filtered_urls = FirstRunWorkList(TRUE)

\* A continuous run found a state file that is no JSON and fetches.
C18_Witness ==
    /\ phase = "fetching"
    /\ continuous
    /\ snap.state = Truncated
    /\ filtered_urls # << >>

\* C19: a non-continuous run leaves the state file as it was, takes no
\* latest date from it, and has the work list it has without a state file.
C19_NonContinuousIgnoresState ==
    (run > 0 /\ ~continuous) =>
        /\ state_file = snap.state
        /\ latest_date = << >>
        /\ filtered_urls = FirstRunWorkList(FALSE)

\* A non-continuous run over a stored state has ended with results.
C19_Witness ==
    /\ RunEnded
    /\ ~continuous
    /\ snap.state = OldState
    /\ essays_data # << >>

\* The orders in which the results of a run can have been received.
Orders(essays) ==
    {[i \in 1..Len(essays) |-> essays[p[i]]] : p \in Permutations(1..Len(essays))}

\* C25: the state a run has written is the state it writes for every order
\* in which the same results are received (checked for the runs in which
\* every result was built from the page of its own URL).
C25_StateOrderIndependent ==
    (RunEnded /\ essays_data # << >> /\ state_file # snap.state
        /\ state_file # Truncated
        /\ \A i \in 1..Len(essays_data) : essays_data[i].content = essays_data[i].url) =>
        \A order \in Orders(essays_data) :
            NewState(order, scraped_urls, scraped_slugs) = state_file

\* C26: after a run that saved its results, the aggregated results file
\* holds every item it held before and no item twice.
C26_ResultsFileMergedWithoutDuplicates ==
    (RunEnded /\ essays_data # << >>) =>
        /\ \A i \in 1..Len(snap.json) :
              \E j \in 1..Len(json_file) : json_file[j] = snap.json[i]
        /\ \A i, j \in 1..Len(json_file) : i # j => json_file[i] # json_file[j]

----------------------------------------------------------------------------
(* Claims about discovery (SpecDiscovery)                                   *)

FeedRequested == \E i \in 1..Len(requested) : requested[i] = "feed.xml"

\* The URLs of a list.
Listed(urls) == {urls[i] : i \in 1..Len(urls)}

\* C20 as stated: the sitemap is requested first, and the feed only when
\* the sitemap fetch failed.
C20_FeedOnlyAfterSitemapFailure ==
    requested # << >> =>
        /\ requested[1] = "sitemap.xml"
        /\ FeedRequested => sitemap.kind # "ok"

\* C20 amended: for every answer to the two requests the constructor gets a
\* list; the sitemap is requested first and the feed exactly when the
\* sitemap gave no URL, because it failed or because it lists none; a
\* request that fails contributes no URL.
C20_DiscoveryFailsSoft ==
    requested # << >> =>
        /\ requested[1] = "sitemap.xml"
        /\ Len(requested) <= 2
        /\ FeedRequested <=> (sitemap.kind # "ok" \/ sitemap.urls = << >>)
        /\ Listed(post_urls) \subseteq
              IF FeedRequested
              THEN (IF feed.kind = "ok" THEN Listed(feed.urls) ELSE {})
              ELSE Listed(sitemap.urls)
        /\ ~run_error

\* The sitemap request timed out and the posts came from the feed.
C20_Witness ==
    /\ requested = <<"sitemap.xml", "feed.xml">>
    /\ sitemap.kind = "timeout"
    /\ post_urls # << >>

\* The path of a URL: what follows its scheme and host.
UrlPath(url) ==
    LET slashes == {i \in 1..Len(url) : url[i] = "/"}
    IN  IF slashes = {} THEN << >>
        ELSE SubSeq(url, CHOOSE i \in slashes : \A j \in slashes : i <= j, Len(url))

PathIsClean(url) == \A keyword \in keywords : ~Contains(UrlPath(url), keyword)

\* The URLs the source that was used lists, before filter_urls.
DiscoveredUrls ==
    IF FeedRequested THEN fetch_urls_from_feed(feed)
    ELSE fetch_urls_from_sitemap(sitemap)

\* C21: the candidates of the scraper are the discovered URLs whose path
\* contains no exclusion keyword, in their original order: a URL is dropped
\* if and only if its path contains a keyword.
C21_DropsIffPathHasKeyword ==
    requested # << >> => post_urls = SelectSeq(DiscoveredUrls, PathIsClean)

----------------------------------------------------------------------------
(* Claims about main (SpecMain)                                             *)

\* The call of scrape_single_url for a publication has raised an exception.
ScrapeRaised == main_pc = "url" /\ run = calls /\ phase = "idle" /\ run_error

\* C22: when the scrape of a publication raises, main goes on with its
\* loop, in either mode; it does not end.
C22_FailureNeverTerminates ==
    [][ScrapeRaised => main_pc' = "loop"]_vars

\* The for loop over the publications is over.
PassOver == main_pc = "loop" /\ url_index = Len(unique_urls)

\* The next pass over all publications begins with the first of them.
NextPassBegins == main_pc' = "loop" /\ url_index' = 0

\* C23 as stated: with an interval greater than 0, a pass that is over is
\* followed by the sleep or by the next pass.
C23_RepeatsWheneverInterval ==
    [][(PassOver /\ args.interval > 0) => (main_pc' = "sleep" \/ NextPassBegins)]_vars

\* C23 amended: in continuous mode with an interval greater than 0, a pass
\* that is over is followed by the sleep or, when no time is left, by the
\* next pass; the sleep is followed by the next pass unless the process is
\* interrupted; and main ends only when interrupted. Without the continuous
\* flag, or with no interval, main ends after one pass.
C23_RepeatsInContinuousMode ==
    [][/\ (PassOver /\ continuous /\ args.interval > 0) =>
             (main_pc' = "sleep" \/ NextPassBegins)
       /\ (PassOver /\ ~(continuous /\ args.interval > 0)) => main_pc' = "exit"
       /\ (main_pc = "sleep" /\ main_pc' # "sleep") => (NextPassBegins \/ interrupted')
       /\ (continuous /\ args.interval > 0 /\ main_pc \in {"loop", "url", "sleep"}
             /\ main_pc' = "exit") => interrupted']_vars

\* After a full pass and a sleep, a publication is being fetched again.
C23_Witness ==
    /\ main_pc = "url"
    /\ phase = "fetching"
    /\ wait_time > 0
    /\ calls > Len(unique_urls)
    /\ ~interrupted

\* C24: in the interval loop, an interrupt that arrives while the items of
\* a publication are being fetched leaves the pass running: main stays in
\* the call, and the run is not ended by an exception.
C24_InFlightIterationCompletes ==
    [][(~interrupted /\ interrupted' /\ continuous /\ args.interval > 0
          /\ main_pc = "url" /\ phase = "fetching") =>
          (main_pc' = "url" /\ phase' = "fetching" /\ ~run_error')]_vars

\* The configuration errors of the claim.
InvalidConfiguration ==
    \/ manual_login /\ args.headless
    \/ args.delay_min > args.delay_max

\* C30: with a configuration error main ends by sys.exit(1) and nothing
\* else happens: no scraper is constructed, no discovery request is made and
\* no browser is started.
C30_ConfigErrorExitsEarly ==
    (InvalidConfiguration /\ main_pc \notin {"none", "start"}) =>
        /\ main_pc = "exit"
        /\ exit_status = "1"
        /\ calls = 0
        /\ requested = << >>
        /\ browser = NoBrowser
        /\ run = 0

\* main has ended on delay-min greater than delay-max, with publications to
\* scrape and a configuration that is valid otherwise.
C30_Witness ==
    /\ main_pc = "exit"
    /\ exit_status = "1"
    /\ unique_urls # << >>
    /\ args.delay_min > args.delay_max
    /\ ~(manual_login /\ args.headless)

\* C40: the browser scrape_single_url has returned to main, which main
\* holds as shared_browser between two calls, is a running one: it was not
\* stopped by the call that returned it.
C40_ReturnedSessionIsLive ==
    (shared_browser /\ main_pc \in {"loop", "sleep"}) =>
        browser.starts \in browser.running

----------------------------------------------------------------------------
(* Claims about login() (SpecLogin)                                        *)

\* login() is over, and it had submitted the sign-in form and gone on to
\* verify the outcome.
LoginVerified ==
    /\ credentials
    /\ sign_in_page.submit
    /\ browser.alive
    /\ login_pc \in {"returned", "raised"}

\* C31: whenever login() has returned normally with credentials configured,
\* is_logged_in is true; and when the verification found neither positive
\* evidence nor the error container, login() has returned normally (and so
\* left is_logged_in true).
C31_OptimisticLogin ==
    /\ (credentials /\ login_pc = "returned") => is_logged_in
    /\ (LoginVerified /\ ~login_success(sign_in_page) /\ ~login_error) =>
            (login_pc = "returned" /\ is_logged_in)

\* login() returned from a sign-in page with no evidence and no error.
C31_Witness ==
    /\ LoginVerified
    /\ sign_in_page.current_url = SignInUrl
    /\ ~Method2(sign_in_page)
    /\ ~login_error
    /\ login_pc = "returned"
    /\ is_logged_in

\* C36: once Method 1 (the tab has left the sign-in path) is satisfied,
\* login() marks the session authenticated and returns normally, whatever
\* Method 2 and the error check would find.
C36_FirstSatisfiedCheckWins ==
    (LoginVerified /\ Method1(sign_in_page)) =>
        (login_pc = "returned" /\ is_logged_in)

====
